---------------------------- MODULE Spec2Model ----------------------------
(***************************************************************************)
(* Model of include/MoFI.H (namespace Foam::MoF): decomposeCell,           *)
(* getVolumeAndCentre and splitAndDecompose.                               *)
(*                                                                         *)
(* A scalar is an exact rational <<num, den>> in lowest terms with den > 0,*)
(* a point/vector is a triple of scalars, a Tetrahedron is a FixedList of  *)
(* four points indexed 0..3, and a DynamicList<Tetrahedron> is a sequence. *)
(***************************************************************************)
EXTENDS Integers, Sequences, FiniteSets

VARIABLES
    tetBuf,   \* the DynamicList<Tetrahedron> the calls write to
    before,      \* contents of tetBuf when the last call was entered
    call,        \* the last call: its name, arguments and local variables
    lastDecomp,  \* what the most recent decomposeCell alone produces
    appended,    \* what the later splitAndDecompose calls alone produce
    args,        \* arguments drawn for the single-call specifications
    twin         \* buffer of the companion call (opposing plane / xT = 0)

vars == <<tetBuf, before, call, lastDecomp, appended, args, twin>>

---------------------------------------------------------------------------
(* scalar: exact rational arithmetic *)

Abs(a) == IF a < 0 THEN -a ELSE a

\* F applied to the value of v, v being evaluated once
With(v, F(_)) == CHOOSE r \in {F(x) : x \in {v}} : TRUE

RECURSIVE GCD(_, _)
GCD(a, b) == IF b = 0 THEN a ELSE GCD(b, a % b)

\* the scalar n/d in lowest terms (d # 0)
Q(n, d) ==
    IF d = 0 THEN <<n, 0>>
    ELSE With(GCD(Abs(n), Abs(d)), LAMBDA g :
           IF d < 0 THEN <<(-n) \div g, (-d) \div g>> ELSE <<n \div g, d \div g>>)

R(n) == <<n, 1>>

RAdd(a, b) == Q(a[1] * b[2] + b[1] * a[2], a[2] * b[2])
RSub(a, b) == Q(a[1] * b[2] - b[1] * a[2], a[2] * b[2])
RMul(a, b) == Q(a[1] * b[1], a[2] * b[2])
RNeg(a) == <<-a[1], a[2]>>
\* 1.0 / a; the quotient by zero is kept as the improper scalar <<1, 0>>
RInv(a) == IF a[1] = 0 THEN <<1, 0>> ELSE Q(a[2], a[1])
RAbs(a) == <<Abs(a[1]), a[2]>>
RPos(a) == a[1] > 0
RNegative(a) == a[1] < 0
RLess(a, b) == a[1] * b[2] < b[1] * a[2]

---------------------------------------------------------------------------
(* vector / point primitives *)

V(x, y, z) == <<R(x), R(y), R(z)>>
VZero == V(0, 0, 0)
VAdd(a, b) == <<RAdd(a[1], b[1]), RAdd(a[2], b[2]), RAdd(a[3], b[3])>>
VSub(a, b) == <<RSub(a[1], b[1]), RSub(a[2], b[2]), RSub(a[3], b[3])>>
VScale(s, a) == <<RMul(s, a[1]), RMul(s, a[2]), RMul(s, a[3])>>
\* a & b
Dot(a, b) == RAdd(RAdd(RMul(a[1], b[1]), RMul(a[2], b[2])), RMul(a[3], b[3]))
\* a ^ b
Cross(a, b) ==
    << RSub(RMul(a[2], b[3]), RMul(a[3], b[2])),
       RSub(RMul(a[3], b[1]), RMul(a[1], b[3])),
       RSub(RMul(a[1], b[2]), RMul(a[2], b[1])) >>

\* a list indexed from 0, as FixedList / List / face / cell are
List(s) == [i \in 0..(Len(s) - 1) |-> s[i + 1]]
Size(l) == Cardinality(DOMAIN l)

\* a Tetrahedron from its four points
Tetra(a, b, c, d) == List(<<a, b, c, d>>)

---------------------------------------------------------------------------
(* decomposeCell *)

\* a Tetrahedron as declared: no slot assigned yet
Unassigned == [i \in 0..3 |-> "unassigned"]

\* the list left as it is
KeepList(tetDecomp) == tetDecomp

\* tetDecomp.clear()
Clear(tetDecomp) == <<>>

\* face::prevLabel(i)
PrevLabel(f, i) == f[(i + Size(f) - 1) % Size(f)]

\* face::nextLabel(i)
NextLabel(f, i) == f[(i + 1) % Size(f)]

\* sum of points[f[0..n-1]]
RECURSIVE SumPoints(_, _, _)
SumPoints(f, points, n) ==
    IF n = 0 THEN VZero ELSE VAdd(SumPoints(f, points, n - 1), points[f[n - 1]])

\* face::centre(points)
FaceCentre(f, points) == VScale(Q(1, Size(f)), SumPoints(f, points, Size(f)))

\* the scan with the comparison against firstFace[2] left out
RECURSIVE ScanTwoCompares(_, _, _)
ScanTwoCompares(firstFace, secondFace, pointI) ==
    IF pointI >= Size(secondFace) THEN pointI
    ELSE IF /\ secondFace[pointI] # firstFace[0]
            /\ secondFace[pointI] # firstFace[1]
         THEN pointI
         ELSE ScanTwoCompares(firstFace, secondFace, pointI + 1)

\* the forAll(secondFace, pointI) scan: the first pointI whose label is none of
\* firstFace[0..2], or Size(secondFace) when the scan ends without a break
RECURSIVE ScanIsolated(_, _, _)
ScanIsolated(firstFace, secondFace, pointI) ==
    IF pointI >= Size(secondFace) THEN pointI
    ELSE IF /\ secondFace[pointI] # firstFace[0]
            /\ secondFace[pointI] # firstFace[1]
            /\ secondFace[pointI] # firstFace[2]
         THEN pointI
         ELSE ScanIsolated(firstFace, secondFace, pointI + 1)

\* the branch dCell.size() == 4
TetrahedralCell(mesh, points, dCell, xT, tmpTetra, tetDecomp) ==
    LET firstFace == mesh.faces[dCell[0]]
        secondFace == mesh.faces[dCell[1]]
        three == [tmpTetra EXCEPT ![0] = VSub(points[firstFace[0]], xT),
                                  ![1] = VSub(points[firstFace[1]], xT),
                                  ![2] = VSub(points[firstFace[2]], xT)]
        pointI == ScanIsolated(firstFace, secondFace, 0)
        four == IF pointI < Size(secondFace)
                THEN [three EXCEPT ![3] = VSub(points[secondFace[pointI]], xT)]
                ELSE three
    IN  Append(tetDecomp, four)

\* the inner forAll(checkFace, pI) of a non-triangular face
RECURSIVE FanLoop(_, _, _, _, _, _)
FanLoop(checkFace, points, xT, tmpTetra, tetDecomp, pI) ==
    IF pI >= Size(checkFace) THEN [tmpTetra |-> tmpTetra, tetDecomp |-> tetDecomp]
    ELSE With([tmpTetra EXCEPT
                 ![0] = VSub(points[checkFace[pI]], xT),
                 ![1] = VSub(points[NextLabel(checkFace, pI)], xT)],
              LAMBDA t : FanLoop(checkFace, points, xT, t, Append(tetDecomp, t),
                                 pI + 1))

\* the body of forAll(dCell, faceI) for one face
DecomposeFace(checkFace, points, xT, tmpTetra, tetDecomp) ==
    IF Size(checkFace) = 3
    THEN With([tmpTetra EXCEPT ![0] = VSub(points[checkFace[0]], xT),
                               ![1] = VSub(points[checkFace[1]], xT),
                               ![2] = VSub(points[checkFace[2]], xT)],
              LAMBDA t : [tmpTetra |-> t, tetDecomp |-> Append(tetDecomp, t)])
    ELSE With([tmpTetra EXCEPT ![2] = VSub(FaceCentre(checkFace, points), xT)],
              LAMBDA t : FanLoop(checkFace, points, xT, t, tetDecomp, 0))

RECURSIVE FaceLoop(_, _, _, _, _, _, _)
FaceLoop(mesh, points, dCell, xT, tmpTetra, tetDecomp, faceI) ==
    IF faceI >= Size(dCell) THEN tetDecomp
    ELSE With(DecomposeFace(mesh.faces[dCell[faceI]], points, xT, tmpTetra,
                            tetDecomp),
              LAMBDA r : FaceLoop(mesh, points, dCell, xT, r.tmpTetra,
                                  r.tetDecomp, faceI + 1))

\* the face-cell decomposition with the apex xC left untranslated
ApexNotTranslated(mesh, points, dCell, xC, xT, tmpTetra, tetDecomp) ==
    With([tmpTetra EXCEPT ![3] = xC],
         LAMBDA t : FaceLoop(mesh, points, dCell, xT, t, tetDecomp, 0))

\* the else branch: face-cell decomposition about xC
PolyhedralCell(mesh, points, dCell, xC, xT, tmpTetra, tetDecomp) ==
    With([tmpTetra EXCEPT ![3] = VSub(xC, xT)],
         LAMBDA t : FaceLoop(mesh, points, dCell, xT, t, tetDecomp, 0))

\* tetDecomp after decomposeCell(mesh, points, cellIndex, xC, tetDecomp, xT)
DecomposeCell(mesh, points, cellIndex, xC, tetDecomp, xT) ==
    LET dCell == mesh.cells[cellIndex]
    IN  IF Size(dCell) = 4
        THEN TetrahedralCell(mesh, points, dCell, xT, Unassigned, Clear(tetDecomp))
        ELSE PolyhedralCell(mesh, points, dCell, xC, xT, Unassigned,
                            Clear(tetDecomp))

---------------------------------------------------------------------------
(* getVolumeAndCentre *)

\* tV of one tet: mag((1/6) * (((t1 - t0) ^ (t2 - t0)) & (t3 - t0)))
TetVolume(t) ==
    RAbs(RMul(Q(1, 6),
              Dot(Cross(VSub(t[1], t[0]), VSub(t[2], t[0])), VSub(t[3], t[0]))))

\* volume accumulated over tets[1..n]
RECURSIVE VolumeUpTo(_, _)
VolumeUpTo(tets, n) ==
    IF n = 0 THEN R(0) ELSE RAdd(VolumeUpTo(tets, n - 1), TetVolume(tets[n]))

Volume(tets) == VolumeUpTo(tets, Len(tets))

---------------------------------------------------------------------------
(* splitAndDecompose *)

\* the value of a FixedList<label, 4> slot the classification loop never wrote
Unfilled == "unfilled"

\* C[i] = (tetra[i] & clipPlane.first()) - clipPlane.second()
Distance(clipPlane, p) == RSub(Dot(p, clipPlane.first), clipPlane.second)

\* the loop body with C[i] >= 0.0 in place of C[i] > 0.0
ClassifyNonStrict(st, i) ==
    IF ~RNegative(st.C[i])
    THEN [st EXCEPT !.pos[st.nPos] = i, !.nPos = @ + 1]
    ELSE [st EXCEPT !.neg[st.nNeg] = i, !.nNeg = @ + 1]

\* one pass of the classification loop body for vertex i
ClassifyVertex(st, i) ==
    IF RPos(st.C[i])
    THEN [st EXCEPT !.pos[st.nPos] = i, !.nPos = @ + 1]
    ELSE IF RNegative(st.C[i])
         THEN [st EXCEPT !.neg[st.nNeg] = i, !.nNeg = @ + 1]
         ELSE [st EXCEPT !.zero[st.nZero] = i, !.nZero = @ + 1]

RECURSIVE ClassifyLoop(_, _)
ClassifyLoop(st, i) ==
    IF i = 4 THEN st
    ELSE With(ClassifyVertex(st, i), LAMBDA next : ClassifyLoop(next, i + 1))

\* locals of splitAndDecompose after the classification loop
Classify(clipPlane, tet) ==
    With([ tetra |-> tet,
           C     |-> [i \in 0..3 |-> Distance(clipPlane, tet[i])],
           pos   |-> [i \in 0..3 |-> Unfilled],
           neg   |-> [i \in 0..3 |-> Unfilled],
           zero  |-> [i \in 0..3 |-> Unfilled],
           nPos  |-> 0, nNeg |-> 0, nZero |-> 0 ],
         LAMBDA st : ClassifyLoop(st, 0))

\* C[k] for a slot value k; an unfilled slot indexes C out of range
CAt(st, k) == IF k \in 0..3 THEN st.C[k] ELSE R(0)
PAt(st, k) == IF k \in 0..3 THEN st.tetra[k] ELSE VZero

\* the intersection point with the weights w0 and w1 exchanged
CutWeightsSwapped(st, a, b) ==
    LET p == st.pos[a]
        q == st.neg[b]
    IN  With(RSub(CAt(st, p), CAt(st, q)), LAMBDA den :
        With(RInv(den), LAMBDA invCDiff :
        With(RMul(RNeg(CAt(st, q)), invCDiff), LAMBDA w0 :
        With(RMul(CAt(st, p), invCDiff), LAMBDA w1 :
          [ a |-> a, b |-> b, p |-> p, q |-> q, den |-> den, w0 |-> w0, w1 |-> w1,
            pt |-> VAdd(VScale(w1, PAt(st, p)), VScale(w0, PAt(st, q))) ]))))

\* invCDiff, w0, w1 and the intersection point of edge (pos[a], neg[b])
Cut(st, a, b) ==
    LET p == st.pos[a]
        q == st.neg[b]
    IN  With(RSub(CAt(st, p), CAt(st, q)), LAMBDA den :
        With(RInv(den), LAMBDA invCDiff :
        With(RMul(RNeg(CAt(st, q)), invCDiff), LAMBDA w0 :
        With(RMul(CAt(st, p), invCDiff), LAMBDA w1 :
          [ a |-> a, b |-> b, p |-> p, q |-> q, den |-> den, w0 |-> w0, w1 |-> w1,
            pt |-> VAdd(VScale(w0, PAt(st, p)), VScale(w1, PAt(st, q))) ]))))

\* result of a case: the tets appended in order and the divisions performed
Out(case, tets, cuts) == [case |-> case, tets |-> tets, cuts |-> cuts]

\* for (i = 0; i < nPos; ++i) tetra[pos[i]] = cut of (pos[i], neg[0])
RECURSIVE ReplaceLoop(_, _, _, _)
ReplaceLoop(case, st, i, cuts) ==
    IF i >= st.nPos THEN Out(case, <<st.tetra>>, cuts)
    ELSE With(Cut(st, i, 0), LAMBDA c :
           With([st EXCEPT !.tetra[st.pos[i]] = c.pt], LAMBDA next :
             ReplaceLoop(case, next, i + 1, Append(cuts, c))))

\* "+++-"
SplitPPPN(st) == ReplaceLoop("+++-", st, 0, <<>>)

\* "++-0"
SplitPPNZ(st) == ReplaceLoop("++-0", st, 0, <<>>)

\* "+-00"
SplitPNZZ(st) ==
    With(Cut(st, 0, 0), LAMBDA c :
      Out("+-00", <<[st.tetra EXCEPT ![st.pos[0]] = c.pt]>>, <<c>>))

\* the bound of the second loop of "++--", which indexes pos[i]
SecondLoopBound(st) == st.nNeg

\* "++--" with tetra[pos[0]] = intp[0] in place of intp[2]
SplitPPNNWrongIntp(st) ==
    With([i \in 1..st.nPos |-> Cut(st, i - 1, 0)], LAMBDA first :
    With([i \in 1..SecondLoopBound(st) |-> Cut(st, i - 1, 1)], LAMBDA second :
    With([k \in 0..3 |-> IF k < 2 THEN first[k + 1].pt ELSE second[k - 1].pt],
         LAMBDA intp :
    With([st.tetra EXCEPT ![st.pos[0]] = intp[0], ![st.pos[1]] = intp[1]],
         LAMBDA tetra :
      Out("++--",
          << tetra,
             Tetra(tetra[st.neg[1]], intp[3], intp[2], intp[1]),
             Tetra(tetra[st.neg[0]], intp[0], intp[1], intp[2]) >>,
          first \o second)))))

\* "++--"
SplitPPNN(st) ==
    With([i \in 1..st.nPos |-> Cut(st, i - 1, 0)], LAMBDA first :
    With([i \in 1..SecondLoopBound(st) |-> Cut(st, i - 1, 1)], LAMBDA second :
    With([k \in 0..3 |-> IF k < 2 THEN first[k + 1].pt ELSE second[k - 1].pt],
         LAMBDA intp :
    With([st.tetra EXCEPT ![st.pos[0]] = intp[2], ![st.pos[1]] = intp[1]],
         LAMBDA tetra :
      Out("++--",
          << tetra,
             Tetra(tetra[st.neg[1]], intp[3], intp[2], intp[1]),
             Tetra(tetra[st.neg[0]], intp[0], intp[1], intp[2]) >>,
          first \o second)))))

\* "+---"
SplitPNNN(st) ==
    With([i \in 1..st.nNeg |-> Cut(st, 0, i - 1)], LAMBDA cuts :
    With([k \in 0..2 |-> cuts[k + 1].pt], LAMBDA intp :
    With([st.tetra EXCEPT ![st.pos[0]] = intp[0]], LAMBDA tetra :
      Out("+---",
          << tetra,
             Tetra(intp[0], tetra[st.neg[1]], tetra[st.neg[2]], intp[1]),
             Tetra(tetra[st.neg[2]], intp[1], intp[2], intp[0]) >>,
          cuts))))

\* "+--0"
SplitPNNZ(st) ==
    With([i \in 1..st.nNeg |-> Cut(st, 0, i - 1)], LAMBDA cuts :
    With([k \in 0..1 |-> cuts[k + 1].pt], LAMBDA intp :
    With([st.tetra EXCEPT ![st.pos[0]] = intp[0]], LAMBDA tetra :
      Out("+--0",
          << tetra,
             Tetra(intp[1], tetra[st.zero[0]], tetra[st.neg[1]], intp[0]) >>,
          cuts))))

\* the dispatch with the append of the nPos == 0 return left out
DispatchInsideDropped(st) ==
    IF st.nNeg = 0 THEN Out("outside", <<>>, <<>>)
    ELSE IF st.nPos = 0 THEN Out("inside", <<>>, <<>>)
    ELSE IF st.nPos = 3 THEN SplitPPPN(st)
    ELSE IF st.nPos = 2
         THEN IF st.nNeg = 2 THEN SplitPPNN(st) ELSE SplitPPNZ(st)
    ELSE IF st.nPos = 1
         THEN IF st.nNeg = 3 THEN SplitPNNN(st)
              ELSE IF st.nNeg = 2 THEN SplitPNNZ(st)
              ELSE SplitPNZZ(st)
    ELSE Out("none", <<>>, <<>>)

\* the dispatch with the nPos == 0 return tested before the nNeg == 0 return
DispatchInsideFirst(st) ==
    IF st.nPos = 0 THEN Out("inside", <<st.tetra>>, <<>>)
    ELSE IF st.nNeg = 0 THEN Out("outside", <<>>, <<>>)
    ELSE IF st.nPos = 3 THEN SplitPPPN(st)
    ELSE IF st.nPos = 2
         THEN IF st.nNeg = 2 THEN SplitPPNN(st) ELSE SplitPPNZ(st)
    ELSE IF st.nPos = 1
         THEN IF st.nNeg = 3 THEN SplitPNNN(st)
              ELSE IF st.nNeg = 2 THEN SplitPNNZ(st)
              ELSE SplitPNZZ(st)
    ELSE Out("none", <<>>, <<>>)

\* the dispatch with the nNeg == 2 test of the nPos == 1 branch left out
DispatchNoPNNZ(st) ==
    IF st.nNeg = 0 THEN Out("outside", <<>>, <<>>)
    ELSE IF st.nPos = 0 THEN Out("inside", <<st.tetra>>, <<>>)
    ELSE IF st.nPos = 3 THEN SplitPPPN(st)
    ELSE IF st.nPos = 2
         THEN IF st.nNeg = 2 THEN SplitPPNN(st) ELSE SplitPPNZ(st)
    ELSE IF st.nPos = 1
         THEN IF st.nNeg = 3 THEN SplitPNNN(st) ELSE SplitPNZZ(st)
    ELSE Out("none", <<>>, <<>>)

\* the two early returns and the dispatch on nPos, nNeg
Dispatch(st) ==
    IF st.nNeg = 0 THEN Out("outside", <<>>, <<>>)
    ELSE IF st.nPos = 0 THEN Out("inside", <<st.tetra>>, <<>>)
    ELSE IF st.nPos = 3 THEN SplitPPPN(st)
    ELSE IF st.nPos = 2
         THEN IF st.nNeg = 2 THEN SplitPPNN(st) ELSE SplitPPNZ(st)
    ELSE IF st.nPos = 1
         THEN IF st.nNeg = 3 THEN SplitPNNN(st)
              ELSE IF st.nNeg = 2 THEN SplitPNNZ(st)
              ELSE SplitPNZZ(st)
    ELSE Out("none", <<>>, <<>>)

\* the locals of one call and what it appends
SplitRun(clipPlane, tet) ==
    With(Classify(clipPlane, tet), LAMBDA st :
    With(Dispatch(st), LAMBDA out :
        [ op |-> "splitAndDecompose", clipPlane |-> clipPlane, tet |-> tet,
          C |-> st.C, pos |-> st.pos, neg |-> st.neg, zero |-> st.zero,
          nPos |-> st.nPos, nNeg |-> st.nNeg, nZero |-> st.nZero,
          case |-> out.case, cuts |-> out.cuts, tets |-> out.tets ]))

\* what the caller can observe of the locals: everything but the tets
Locals(run) == [k \in (DOMAIN run) \ {"tets"} |-> run[k]]

\* decompTets after splitAndDecompose(clipPlane, tet, decompTets)
SplitAndDecompose(clipPlane, tet, decompTets) ==
    decompTets \o SplitRun(clipPlane, tet).tets


---------------------------------------------------------------------------
(* the calls as steps on the buffer *)

NoCall == [op |-> "none"]

\* splitAndDecompose(clipPlane, tet, tetBuf)
SplitCall(clipPlane, tet) ==
    /\ tetBuf' = SplitAndDecompose(clipPlane, tet, tetBuf)
    /\ before' = tetBuf
    /\ call' = Locals(SplitRun(clipPlane, tet))
    /\ appended' = Append(appended, SplitAndDecompose(clipPlane, tet, <<>>))
    /\ UNCHANGED lastDecomp

\* decomposeCell(mesh, points, cellIndex, xC, tetBuf, xT)
DecomposeCall(mesh, points, cellIndex, xC, xT) ==
    /\ tetBuf' = DecomposeCell(mesh, points, cellIndex, xC, tetBuf, xT)
    /\ before' = tetBuf
    /\ call' = [op |-> "decomposeCell"]
    /\ lastDecomp' = DecomposeCell(mesh, points, cellIndex, xC, <<>>, xT)
    /\ appended' = <<>>

---------------------------------------------------------------------------
(* SpecClip: one tet clipped against a plane and against the opposing plane *)

MaxOffset == 1

Normals == {n \in {-1, 0, 1} \X {-1, 0, 1} \X {-1, 0, 1} : n # <<0, 0, 0>>}

Planes == {[first |-> V(n[1], n[2], n[3]), second |-> R(d)] :
              n \in Normals, d \in (-MaxOffset)..MaxOffset}

\* the half-space on the other side of the same plane
Opposing(clipPlane) ==
    [first |-> VScale(R(-1), clipPlane.first), second |-> RNeg(clipPlane.second)]

Perms4 == {p \in [0..3 -> 0..3] : \A i, j \in 0..3 : p[i] = p[j] => i = j}

\* a corner tet, a flat one, a skew one and one with a repeated vertex
BaseTets ==
    { Tetra(V(0, 0, 0), V(2, 0, 0), V(0, 2, 0), V(0, 0, 2)),
      Tetra(V(0, 0, 0), V(2, 0, 0), V(0, 2, 0), V(2, 2, 0)),
      Tetra(V(1, 0, 0), V(0, 2, 0), V(0, 0, 1), V(2, 2, 2)),
      Tetra(V(0, 0, 0), V(2, 0, 0), V(2, 0, 0), V(0, 2, 2)) }

ClipTets == {[i \in 0..3 |-> t[p[i]]] : t \in BaseTets, p \in Perms4}

StaleTet == Tetra(V(5, 5, 5), V(6, 5, 5), V(5, 6, 5), V(5, 5, 6))

InitialBuffers == {<<>>, <<StaleTet>>}

InitClip ==
    /\ args \in [clipPlane : Planes, tet : ClipTets]
    /\ tetBuf \in InitialBuffers
    /\ before = tetBuf
    /\ call = NoCall
    /\ lastDecomp = tetBuf
    /\ appended = <<>>
    /\ twin = [done |-> FALSE, tets |-> <<>>]

ClipNegativeSide ==
    /\ call.op = "none"
    /\ SplitCall(args.clipPlane, args.tet)
    /\ UNCHANGED <<args, twin>>

ClipOpposingSide ==
    /\ ~twin.done
    /\ twin' = [done |-> TRUE,
                tets |-> SplitAndDecompose(Opposing(args.clipPlane), args.tet,
                                           twin.tets)]
    /\ UNCHANGED <<tetBuf, before, call, lastDecomp, appended, args>>

NextClip == ClipNegativeSide \/ ClipOpposingSide

SpecClip == InitClip /\ [][NextClip]_vars

\* signs seen from the arguments alone
PosSet(clipPlane, tet) == {i \in 0..3 : RPos(Distance(clipPlane, tet[i]))}
NegSet(clipPlane, tet) == {i \in 0..3 : RNegative(Distance(clipPlane, tet[i]))}
ZeroSet(clipPlane, tet) == (0..3) \ (PosSet(clipPlane, tet) \cup NegSet(clipPlane, tet))

Clipped == call.op = "splitAndDecompose"
NewTets == SubSeq(tetBuf, Len(before) + 1, Len(tetBuf))

---------------------------------------------------------------------------
(* SpecDecomp: one cell decomposed about xT and about the origin *)

MaxShift == 1

Perms3 == {p \in [0..2 -> 0..2] : \A i, j \in 0..2 : p[i] = p[j] => i = j}

\* the four faces of the tetrahedron on points 0..3, face j opposite point j
BaseFaces ==
    List(<< List(<<1, 2, 3>>), List(<<0, 3, 2>>), List(<<0, 1, 3>>),
            List(<<0, 2, 1>>) >>)

\* a one-cell mesh: the tetrahedron with its faces listed in the order c, the
\* first face's points in the order o0 and the second face's in the order o1
TetMesh(c, o0, o1) ==
    [ faces |-> [j \in 0..3 |->
                    IF j = c[0] THEN [i \in 0..2 |-> BaseFaces[j][o0[i]]]
                    ELSE IF j = c[1] THEN [i \in 0..2 |-> BaseFaces[j][o1[i]]]
                    ELSE BaseFaces[j]],
      cells |-> List(<<c>>) ]

TetPoints == List(<<V(1, 0, 0), V(0, 2, 0), V(0, 0, 1), V(2, 2, 2)>>)

\* prism, pyramid and hexahedron on the corners of a cube, and a prism over a
\* hexagon
FanMesh ==
    [ faces |-> List(<<
          List(<<0, 3, 1>>), List(<<4, 5, 7>>), List(<<0, 1, 5, 4>>),
          List(<<1, 3, 7, 5>>), List(<<3, 0, 4, 7>>),
          List(<<0, 3, 2, 1>>), List(<<0, 1, 4>>), List(<<1, 2, 4>>),
          List(<<2, 3, 4>>), List(<<3, 0, 4>>),
          List(<<4, 5, 6, 7>>), List(<<1, 2, 6, 5>>), List(<<2, 3, 7, 6>>),
          List(<<8, 13, 12, 11, 10, 9>>), List(<<14, 15, 16, 17, 18, 19>>),
          List(<<8, 9, 15, 14>>), List(<<9, 10, 16, 15>>),
          List(<<10, 11, 17, 16>>), List(<<11, 12, 18, 17>>),
          List(<<12, 13, 19, 18>>), List(<<13, 8, 14, 19>>) >>),
      cells |-> List(<<
          List(<<2, 0, 3, 1, 4>>),
          List(<<6, 5, 7, 8, 9>>),
          List(<<5, 10, 2, 11, 12, 4>>),
          List(<<13, 15, 16, 14, 17, 18, 19, 20>>) >>) ]

FanPoints ==
    List(<< V(0, 0, 0), V(2, 0, 0), V(2, 2, 0), V(0, 2, 0),
            V(0, 0, 2), V(2, 0, 2), V(2, 2, 2), V(0, 2, 2),
            V(0, 0, 0), V(2, 0, 0), V(3, 1, 0), V(2, 2, 0), V(0, 2, 0), V(-1, 1, 0),
            V(0, 0, 2), V(2, 0, 2), V(3, 1, 2), V(2, 2, 2), V(0, 2, 2), V(-1, 1, 2) >>)

\* the same points moved by a mesh deformation
Deformed(points) ==
    [k \in DOMAIN points |->
        <<RAdd(points[k][1], points[k][3]), points[k][2], RMul(R(3), points[k][3])>>]

TetCases ==
    {[mesh |-> TetMesh(c, o0, o1), points |-> pts, cellIndex |-> 0] :
        c \in Perms4, o0 \in Perms3, o1 \in Perms3,
        pts \in {TetPoints, Deformed(TetPoints)}}

FanCases ==
    {[mesh |-> FanMesh, points |-> pts, cellIndex |-> k] :
        k \in DOMAIN FanMesh.cells, pts \in {FanPoints, Deformed(FanPoints)}}

Origins == {V(a, b, a - b) : a, b \in 0..MaxShift}

Centroids == {V(1, 1, 1), V(0, 1, 2)}

InitDecomp ==
    /\ \E cs \in TetCases \cup FanCases, xC \in Centroids, xT \in Origins :
          args = [mesh |-> cs.mesh, points |-> cs.points,
                  cellIndex |-> cs.cellIndex, xC |-> xC, xT |-> xT]
    /\ tetBuf \in InitialBuffers
    /\ before = tetBuf
    /\ call = NoCall
    /\ lastDecomp = tetBuf
    /\ appended = <<>>
    /\ twin = [done |-> FALSE, tets |-> <<>>]

DecomposeAboutOrigin ==
    /\ call.op = "none"
    /\ DecomposeCall(args.mesh, args.points, args.cellIndex, args.xC, args.xT)
    /\ UNCHANGED <<args, twin>>

DecomposeUntranslated ==
    /\ ~twin.done
    /\ twin' = [done |-> TRUE,
                tets |-> DecomposeCell(args.mesh, args.points, args.cellIndex,
                                       args.xC, twin.tets, VZero)]
    /\ UNCHANGED <<tetBuf, before, call, lastDecomp, appended, args>>

NextDecomp == DecomposeAboutOrigin \/ DecomposeUntranslated

SpecDecomp == InitDecomp /\ [][NextDecomp]_vars

Decomposed == call.op = "decomposeCell"

---------------------------------------------------------------------------
(* Spec: any sequence of decomposeCell and splitAndDecompose on one buffer *)

MaxClips == 2

SeqCases ==
    { [mesh |-> TetMesh(List(<<2, 0, 3, 1>>), List(<<1, 2, 0>>), List(<<0, 1, 2>>)),
       points |-> TetPoints, cellIndex |-> 0],
      [mesh |-> FanMesh, points |-> FanPoints, cellIndex |-> 1] }

SeqPlanes ==
    { [first |-> V(1, 0, 0), second |-> R(1)],
      [first |-> V(0, -1, 1), second |-> R(0)],
      [first |-> V(-1, -1, -1), second |-> R(-2)] }

SeqTets ==
    { Tetra(V(0, 0, 0), V(2, 0, 0), V(0, 2, 0), V(0, 0, 2)),
      Tetra(V(2, 2, 2), V(0, 2, 0), V(1, 0, 0), V(0, 0, 1)) }

SeqOrigins == {VZero, V(1, 0, -1)}

\* a tet of the buffer itself may be passed as the const reference tet
Clippable == SeqTets \cup {tetBuf[k] : k \in {Len(tetBuf)} \ {0}}

Init ==
    /\ tetBuf \in InitialBuffers
    /\ before = tetBuf
    /\ call = NoCall
    /\ lastDecomp = tetBuf
    /\ appended = <<>>
    /\ args = [xC |-> V(1, 1, 1)]
    /\ twin = [done |-> TRUE, tets |-> <<>>]

Decompose ==
    /\ \E cs \in SeqCases, xT \in SeqOrigins :
          DecomposeCall(cs.mesh, cs.points, cs.cellIndex, args.xC, xT)
    /\ UNCHANGED <<args, twin>>

Split ==
    /\ Len(appended) < MaxClips
    /\ \E clipPlane \in SeqPlanes, tet \in Clippable : SplitCall(clipPlane, tet)
    /\ UNCHANGED <<args, twin>>

Next == Decompose \/ Split

Spec == Init /\ [][Next]_vars

---------------------------------------------------------------------------
(* properties *)

Range(l) == {l[i] : i \in DOMAIN l}

RECURSIVE Flatten(_)
Flatten(ss) == IF ss = <<>> THEN <<>> ELSE Head(ss) \o Flatten(Tail(ss))

IsPrefix(a, b) == Len(a) <= Len(b) /\ SubSeq(b, 1, Len(a)) = a

NumPos == Cardinality(PosSet(args.clipPlane, args.tet))
NumNeg == Cardinality(NegSet(args.clipPlane, args.tet))
NumZero == Cardinality(ZeroSet(args.clipPlane, args.tet))

\* C1: clipper conservation. After clipping a tet into an empty buffer against
\* a plane and into another empty buffer against the opposing half-space, the
\* unsigned volumes of the two outputs add up to the unsigned volume of the tet.
ClipperConservation ==
    (Clipped /\ twin.done /\ before = <<>>)
        => RAdd(Volume(tetBuf), Volume(twin.tets)) = TetVolume(args.tet)

\* both sides of a "++--" split of a tet of non-zero volume have been produced
ConservationWitness ==
    /\ Clipped /\ twin.done /\ before = <<>>
    /\ NumPos = 2 /\ NumNeg = 2
    /\ Len(tetBuf) = 3 /\ Len(twin.tets) = 3
    /\ RPos(TetVolume(args.tet))

\* C2 as stated: whenever no vertex is classified positive, the call appends
\* exactly the input tet.
NoPosAppendsInput ==
    (Clipped /\ NumPos = 0) => tetBuf = Append(before, args.tet)

\* C2 amended: whenever no vertex is classified positive and at least one is
\* classified negative, the call appends exactly the input tet, vertex for
\* vertex; with all four vertices on the plane it appends nothing.
NoPosSomeNegAppendsInput ==
    /\ (Clipped /\ NumPos = 0 /\ NumNeg >= 1) => tetBuf = Append(before, args.tet)
    /\ (Clipped /\ NumZero = 4) => tetBuf = before

\* a tet with on-plane and negative vertices only was appended behind an
\* earlier entry
NoPosWitness ==
    /\ Clipped /\ NumPos = 0 /\ NumNeg >= 1 /\ NumZero >= 1
    /\ before # <<>> /\ Len(tetBuf) = Len(before) + 1

\* C3: whenever no vertex is classified negative, the buffer is after the call
\* what it was before it.
NoNegAppendsNothing ==
    (Clipped /\ NumNeg = 0) => tetBuf = before

\* a tet touching the plane from the positive side met a non-empty buffer
NoNegWitness ==
    /\ Clipped /\ NumNeg = 0 /\ NumPos >= 1 /\ NumZero >= 1
    /\ before # <<>> /\ tetBuf = before

\* C4: buffer discipline. The buffer is what the most recent decomposeCell
\* alone produces (or the initial contents) followed, in call order, by what
\* each later splitAndDecompose alone appends; decomposeCell keeps nothing of
\* the earlier contents and splitAndDecompose keeps every earlier entry in
\* place, so the length never decreases between two decomposeCell calls.
BufferDiscipline ==
    /\ tetBuf = lastDecomp \o Flatten(appended)
    /\ call.op = "decomposeCell" => tetBuf = lastDecomp
    /\ call.op = "splitAndDecompose" => IsPrefix(before, tetBuf)

\* two clips have appended behind a decomposition that replaced older contents
BufferWitness ==
    /\ call.op = "splitAndDecompose"
    /\ Len(appended) = 2 /\ appended[1] # <<>> /\ appended[2] # <<>>
    /\ Len(lastDecomp) = 8
    /\ Len(tetBuf) > Len(before)

\* C5: every vertex of every appended tet is an input vertex classified neg
\* or zero, or a point at signed distance exactly 0; so every appended vertex
\* lies in the closed half-space and no appended vertex is classified pos.
AppendedInHalfSpace ==
    Clipped => \A k \in 1..Len(NewTets) : \A i \in 0..3 :
        LET v == NewTets[k][i]
            C(j) == Distance(args.clipPlane, args.tet[j])
        IN  /\ ~RPos(Distance(args.clipPlane, v))
            /\ \/ \E j \in 0..3 \ PosSet(args.clipPlane, args.tet) : v = args.tet[j]
               \/ \E n \in 1..Len(call.cuts) :
                    LET c == call.cuts[n]
                    IN  /\ v = c.pt
                        /\ v = VAdd(VScale(c.w0, args.tet[c.p]),
                                    VScale(c.w1, args.tet[c.q]))
                        /\ RAdd(RMul(c.w0, C(c.p)), RMul(c.w1, C(c.q))) = R(0)
                        /\ Distance(args.clipPlane, v) = R(0)
            /\ \A j \in PosSet(args.clipPlane, args.tet) : v # args.tet[j]

\* a "+---" split appended three tets
HalfSpaceWitness ==
    Clipped /\ NumPos = 1 /\ NumNeg = 3 /\ Len(NewTets) = 3

\* C6: translation invariance. decomposeCell about xT emits as many tets as
\* decomposeCell about the origin, and each vertex is the corresponding vertex
\* of that run minus xT; the total unsigned volume is the same.
TranslationInvariance ==
    (Decomposed /\ twin.done) =>
        /\ Len(tetBuf) = Len(twin.tets)
        /\ \A k \in 1..Len(tetBuf) : \A i \in 0..3 :
              tetBuf[k][i] = VSub(twin.tets[k][i], args.xT)
        /\ Volume(tetBuf) = Volume(twin.tets)

\* a polyhedral cell was decomposed about a non-zero origin and about zero
TranslationWitness ==
    /\ Decomposed /\ twin.done
    /\ args.xT # VZero
    /\ Len(tetBuf) > 1
    /\ RPos(Volume(tetBuf))

ArgCell == args.mesh.cells[args.cellIndex]
ArgFace(faceI) == args.mesh.faces[ArgCell[faceI]]
CellPoints == UNION {Range(ArgFace(faceI)) : faceI \in DOMAIN ArgCell}

\* C7: tetrahedral fast path. A cell of four triangular faces over four points
\* leaves one tet: indices 0..2 are the first face's points in face order,
\* index 3 is the cell point not on the first face, each minus xT; xC does not
\* appear.
TetrahedralFastPath ==
    (Decomposed /\ Size(ArgCell) = 4) =>
        /\ Len(tetBuf) = 1
        /\ \A i \in 0..2 : tetBuf[1][i] = VSub(args.points[ArgFace(0)[i]], args.xT)
        /\ \E k \in CellPoints \ Range(ArgFace(0)) :
              tetBuf[1][3] = VSub(args.points[k], args.xT)
        /\ Range(tetBuf[1]) = {VSub(args.points[k], args.xT) : k \in CellPoints}
        /\ Cardinality(Range(tetBuf[1])) = 4
        /\ VSub(args.xC, args.xT) \notin Range(tetBuf[1])

\* a tetrahedron was decomposed whose second face starts with two points of
\* the first face, over a buffer that held an older tet
FastPathWitness ==
    /\ Decomposed /\ Size(ArgCell) = 4
    /\ ArgFace(1)[0] \in Range(ArgFace(0))
    /\ ArgFace(1)[1] \in Range(ArgFace(0))
    /\ args.xT # VZero
    /\ before # <<>>

\* the tets the apex fan owes one face
FanOfFace(f) ==
    LET sub(k) == VSub(args.points[k], args.xT)
        apex == VSub(args.xC, args.xT)
    IN  IF Size(f) = 3
        THEN <<Tetra(sub(f[0]), sub(f[1]), sub(f[2]), apex)>>
        ELSE [i \in 1..Size(f) |->
                Tetra(sub(f[i - 1]), sub(f[i % Size(f)]),
                      VSub(FaceCentre(f, args.points), args.xT), apex)]

\* C8: apex-fan path. A cell whose face count is not 4 leaves, face by face
\* in cell order, one tet (v0, v1, v2, xC) per triangular face and one tet
\* (v_i, v_(i+1 mod k), faceCentroid, xC) per edge of a face of k > 3 points,
\* all minus xT; index 3 of every tet is xC - xT.
ApexFanPath ==
    (Decomposed /\ Size(ArgCell) # 4) =>
        /\ tetBuf = Flatten([j \in 1..Size(ArgCell) |-> FanOfFace(ArgFace(j - 1))])
        /\ \A k \in 1..Len(tetBuf) : tetBuf[k][3] = VSub(args.xC, args.xT)

\* the prism over a hexagon was decomposed: 2 * 6 + 6 * 4 tets
ApexFanWitness ==
    /\ Decomposed /\ Size(ArgCell) = 8
    /\ Len(tetBuf) = 36
    /\ args.xT # VZero

\* the case and the number of tets a sign pattern owes
OwedCase ==
    IF NumNeg = 0 THEN "outside"
    ELSE IF NumPos = 0 THEN "inside"
    ELSE IF NumPos = 3 /\ NumNeg = 1 THEN "+++-"
    ELSE IF NumPos = 2 /\ NumNeg = 2 THEN "++--"
    ELSE IF NumPos = 2 /\ NumNeg = 1 THEN "++-0"
    ELSE IF NumPos = 1 /\ NumNeg = 3 THEN "+---"
    ELSE IF NumPos = 1 /\ NumNeg = 2 THEN "+--0"
    ELSE "+-00"

OwedTets ==
    IF OwedCase \in {"++--", "+---"} THEN 3
    ELSE IF OwedCase = "+--0" THEN 2
    ELSE IF OwedCase = "outside" THEN 0
    ELSE 1

\* C9: case dispatch. With nPos >= 1 and nNeg >= 1 exactly the case of the
\* sign pattern runs and appends 1, 3, 1, 3, 2, 1 tets for (3,1,0), (2,2,0),
\* (2,1,1), (1,3,0), (1,2,1), (1,1,2); no call appends more than 3.
CaseDispatch ==
    Clipped =>
        /\ Len(NewTets) <= 3
        /\ (NumPos >= 1 /\ NumNeg >= 1) =>
              /\ call.case = OwedCase
              /\ Len(NewTets) = OwedTets
              /\ Len(NewTets) >= 1
              /\ <<call.nPos, call.nNeg, call.nZero>> = <<NumPos, NumNeg, NumZero>>

\* a "+--0" split appended two tets
DispatchWitness ==
    /\ Clipped /\ NumPos = 1 /\ NumNeg = 2 /\ NumZero = 1
    /\ Len(NewTets) = 2

\* C10: division safety. Every division is by C[pos[a]] - C[neg[b]] with
\* a < nPos and b < nNeg, both slots written by the classification loop, so
\* the divisor is positive, 0 < w0 < 1, 0 < w1 < 1 and w0 + w1 = 1; there is
\* no division when nPos = 0 or nNeg = 0.
DivisionSafety ==
    Clipped =>
        /\ \A k \in 1..Len(call.cuts) :
              LET c == call.cuts[k]
              IN  /\ c.a < NumPos /\ c.b < NumNeg
                  /\ c.p \in PosSet(args.clipPlane, args.tet)
                  /\ c.q \in NegSet(args.clipPlane, args.tet)
                  /\ c.p = call.pos[c.a] /\ c.q = call.neg[c.b]
                  /\ c.den = RSub(Distance(args.clipPlane, args.tet[c.p]),
                                  Distance(args.clipPlane, args.tet[c.q]))
                  /\ RPos(c.den)
                  /\ RPos(c.w0) /\ RLess(c.w0, R(1))
                  /\ RPos(c.w1) /\ RLess(c.w1, R(1))
                  /\ RAdd(c.w0, c.w1) = R(1)
        /\ (NumPos = 0 \/ NumNeg = 0) => call.cuts = <<>>

\* the "++--" case ran both of its loops: four divisions
DivisionWitness ==
    /\ Clipped /\ NumPos = 2 /\ NumNeg = 2
    /\ Len(call.cuts) = 4
    /\ call.cuts[4].a = 1 /\ call.cuts[4].b = 1

===========================================================================
